---- MODULE Spec2Model ----
(***************************************************************************)
(* Model of the two C programs of the repository:                          *)
(*   templates/c/matrix_operations.c     - the fixed-capacity matrix core  *)
(*   projects/2026-02-15-c-stack-array/main.c - the key/value DataStore    *)
(*                                                                         *)
(* A C double is modelled as the exactly representable number              *)
(*     w + f * 2^-30        (a record [w, f] of two integers, |f| small),  *)
(* so that differences far below 1.0 - in particular on both sides of the  *)
(* tolerance 1e-9 of is_symmetric - exist in the model:                    *)
(*     1 * 2^-30 = 9.31e-10 <= 1e-9 < 1.86e-9 = 2 * 2^-30.                 *)
(*                                                                         *)
(* A Matrix is [rows, cols, data]; data is a function whose DOMAIN is the  *)
(* set of cells <<i, j>> of the backing array that have been written.  A   *)
(* cell outside DOMAIN data is uninitialized memory: reading it yields an  *)
(* indeterminate value, which every operation receives as the parameter g. *)
(***************************************************************************)
EXTENDS Integers, Sequences, FiniteSets, TLC

VARIABLES a, b, op, hist, arg, res, reads, out, store, call

mvars == <<a, b, op, hist, arg, res, reads, out>>
svars == <<store, call>>
vars == <<a, b, op, hist, arg, res, reads, out, store, call>>

----------------------------------------------------------------------------
(* Program constants *)

MAX == 10
MAX_ITEMS == 100
MAX_LEN == 256

(* 1e-9 is 1 / TolDen *)
TolDen == 1000000000

----------------------------------------------------------------------------
(* Bounds of the model *)

\* rectangular input matrices have at most MaxCells logical entries
MaxCells == 4
\* operand pairs: each operand has at most MaxPairCells logical entries
MaxPairCells == 4
\* at most MaxOps operations are applied in a row, each to the result of the last
MaxOps == 2
\* add_item draws its pair freely while count < MaxVaried, then a fixed pair
MaxVaried == 6

----------------------------------------------------------------------------
(* double arithmetic *)

\* the fractional unit: f counts multiples of 1 / FracDen
FracDen == 2^30

V(w, f) == [w |-> w, f |-> f]
Zero == V(0, 0)
One == V(1, 0)

DAdd(x, y) == [w |-> x.w + y.w, f |-> x.f + y.f]
DSub(x, y) == [w |-> x.w - y.w, f |-> x.f - y.f]
\* the term x.f * y.f * 2^-60 is below half an ulp of every product the
\* model forms with a nonzero whole part, and is zero otherwise: round to
\* nearest drops it
DMul(x, y) == [w |-> x.w * y.w, f |-> x.w * y.f + x.f * y.w]
DNeg(x) == [w |-> 0 - x.w, f |-> 0 - x.f]
DIsNeg(x) == x.w < 0 \/ (x.w = 0 /\ x.f < 0)
fabs(x) == IF DIsNeg(x) THEN DNeg(x) ELSE x
\* exact comparison in place of the tolerance
GtTol_exact(x) == x.w > 0 \/ (x.w = 0 /\ x.f > 0)

\* x > 1e-9: f / FracDen > 1 / TolDen iff f > FracDen \div TolDen, f an integer
GtTol(x) == x.w > 0 \/ (x.w = 0 /\ x.f > FracDen \div TolDen)

----------------------------------------------------------------------------
(* Matrix *)

Cells(rows, cols) == (0 .. rows - 1) \X (0 .. cols - 1)
Backing == Cells(MAX, MAX)

\* m.data[i][j]; g is what an uninitialized cell happens to hold
Rd(m, i, j, g) == IF <<i, j>> \in DOMAIN m.data THEN m.data[<<i, j>>] ELSE g

\* m after a loop nest has stored w[c] to each cell c of DOMAIN w
Assign(m, w) ==
  [m EXCEPT !.data = [c \in (DOMAIN m.data) \cup (DOMAIN w) |->
                        IF c \in DOMAIN w THEN w[c] ELSE m.data[c]]]

create_matrix(rows, cols) ==
  [rows |-> rows, cols |-> cols, data |-> [c \in Cells(rows, cols) |-> Zero]]

add(x, y, g) ==
  LET result == create_matrix(x.rows, x.cols)
  IN  Assign(result,
             [c \in Cells(x.rows, x.cols) |->
                DAdd(Rd(x, c[1], c[2], g), Rd(y, c[1], c[2], g))])

subtract(x, y, g) ==
  LET result == create_matrix(x.rows, x.cols)
  IN  Assign(result,
             [c \in Cells(x.rows, x.cols) |->
                DSub(Rd(x, c[1], c[2], g), Rd(y, c[1], c[2], g))])

\* result.data[i][j] after the first k iterations of the innermost loop
RECURSIVE MulAcc(_, _, _, _, _, _, _)
MulAcc(result, x, y, i, j, k, g) ==
  IF k = 0 THEN result.data[<<i, j>>]
  ELSE DAdd(MulAcc(result, x, y, i, j, k - 1, g),
            DMul(Rd(x, i, k - 1, g), Rd(y, k - 1, j, g)))

\* the innermost loop bounded by a->rows in place of a->cols
multiply_inner_rows(x, y, g) ==
  LET result == create_matrix(x.rows, y.cols)
  IN  Assign(result,
             [c \in Cells(x.rows, y.cols) |->
                MulAcc(result, x, y, c[1], c[2], x.rows, g)])

multiply(x, y, g) ==
  LET result == create_matrix(x.rows, y.cols)
  IN  Assign(result,
             [c \in Cells(x.rows, y.cols) |->
                MulAcc(result, x, y, c[1], c[2], x.cols, g)])

\* the result created with the operand's shape, not the swapped one
transpose_same_shape(m, g) ==
  LET result == create_matrix(m.rows, m.cols)
  IN  Assign(result,
             [d \in {<<c[2], c[1]>> : c \in Cells(m.rows, m.cols)} |->
                Rd(m, d[2], d[1], g)])

transpose(m, g) ==
  LET result == create_matrix(m.cols, m.rows)
  IN  Assign(result,
             [d \in {<<c[2], c[1]>> : c \in Cells(m.rows, m.cols)} |->
                Rd(m, d[2], d[1], g)])

scalar_multiply(m, scalar, g) ==
  LET result == create_matrix(m.rows, m.cols)
  IN  Assign(result,
             [c \in Cells(m.rows, m.cols) |-> DMul(Rd(m, c[1], c[2], g), scalar)])

determinant_2x2(m, g) ==
  DSub(DMul(Rd(m, 0, 0, g), Rd(m, 1, 1, g)), DMul(Rd(m, 0, 1, g), Rd(m, 1, 0, g)))

\* sum after the first k iterations
RECURSIVE TraceAcc(_, _, _)
TraceAcc(m, k, g) ==
  IF k = 0 THEN Zero ELSE DAdd(TraceAcc(m, k - 1, g), Rd(m, k - 1, k - 1, g))

\* the diagonal run taken as m->rows, not the shorter of rows and cols
trace_rows(m, g) == TraceAcc(m, m.rows, g)

trace(m, g) ==
  LET min == IF m.rows < m.cols THEN m.rows ELSE m.cols
  IN  TraceAcc(m, min, g)

\* the first row-major position p = i * cols + j at which the scan returns 0,
\* or rows * cols when it runs to the end
SymStop(m, g) ==
  LET fails == {p \in 0 .. m.rows * m.cols - 1 :
                  GtTol(fabs(DSub(Rd(m, p \div m.cols, p % m.cols, g),
                                  Rd(m, p % m.cols, p \div m.cols, g))))}
  IN  IF fails = {} THEN m.rows * m.cols
      ELSE CHOOSE p \in fails : \A q \in fails : p <= q

is_symmetric(m, g) ==
  IF m.rows # m.cols THEN 0
  ELSE IF SymStop(m, g) < m.rows * m.cols THEN 0 ELSE 1

\* the diagonal loop started at 1
identity_from_1(n) ==
  LET m == create_matrix(n, n)
  IN  Assign(m, [c \in {<<i, i>> : i \in 1 .. n - 1} |-> One])

identity(n) ==
  LET m == create_matrix(n, n)
  IN  Assign(m, [c \in {<<i, i>> : i \in 0 .. n - 1} |-> One])

\* "%7.2f" of print_matrix, in hundredths: |f| / FracDen < 1 / 200 (the sign
\* of a zero, which "%f" prints, is not part of the model's values)
Fmt72(x) == x.w * 100

\* the text of print_matrix: the header's name and shape, then one line a row
print_matrix(name, m, g) ==
  [name |-> name, rows |-> m.rows, cols |-> m.cols,
   lines |-> [i \in 1 .. m.rows |->
                [j \in 1 .. m.cols |-> Fmt72(Rd(m, i - 1, j - 1, g))]]]

----------------------------------------------------------------------------
(* The cells of its operands each operation reads: <<operand, i, j>>, the  *)
(* operand "a" being the first argument and "b" the second.                *)

ElementwiseReads(x) ==
  {<<"a", c[1], c[2]>> : c \in Cells(x.rows, x.cols)}
    \cup {<<"b", c[1], c[2]>> : c \in Cells(x.rows, x.cols)}

MultiplyReads(x, y) ==
  IF x.rows > 0 /\ y.cols > 0
  THEN {<<"a", c[1], c[2]>> : c \in Cells(x.rows, x.cols)}
         \cup {<<"b", c[1], c[2]>> : c \in Cells(x.cols, y.cols)}
  ELSE {}

RegionReads(m) == {<<"a", c[1], c[2]>> : c \in Cells(m.rows, m.cols)}

DeterminantReads == {<<"a", 0, 0>>, <<"a", 1, 1>>, <<"a", 0, 1>>, <<"a", 1, 0>>}

TraceReads(m) ==
  LET min == IF m.rows < m.cols THEN m.rows ELSE m.cols
  IN  {<<"a", i, i>> : i \in 0 .. min - 1}

\* the scan reads data[i][j] and data[j][i] at every position up to the one
\* it returns at
SymmetricReads(m, g) ==
  IF m.rows # m.cols THEN {}
  ELSE LET stop == SymStop(m, g)
           last == IF stop < m.rows * m.cols THEN stop ELSE stop - 1
       IN  UNION {{<<"a", p \div m.cols, p % m.cols>>,
                   <<"a", p % m.cols, p \div m.cols>>} : p \in 0 .. last}

----------------------------------------------------------------------------
(* Inputs *)

NoMatrix == [rows |-> 0, cols |-> 0, data |-> [c \in {} |-> Zero]]
NoArg == [k |-> Zero, n |-> 0, rows |-> 0, cols |-> 0]
NoRes == [status |-> "none", kind |-> "none", m |-> NoMatrix, v |-> Zero, i |-> 0]
NoOut == [name |-> "", rows |-> 0, cols |-> 0, lines |-> <<>>]

ResMatrix(m) == [status |-> "ok", kind |-> "matrix", m |-> m, v |-> Zero, i |-> 0]
ResDouble(v) == [status |-> "ok", kind |-> "double", m |-> NoMatrix, v |-> v, i |-> 0]
ResInt(i) == [status |-> "ok", kind |-> "int", m |-> NoMatrix, v |-> Zero, i |-> i]
ResVoid == [status |-> "ok", kind |-> "void", m |-> NoMatrix, v |-> Zero, i |-> 0]
ResCrash == [status |-> "crash", kind |-> "none", m |-> NoMatrix, v |-> Zero, i |-> 0]

\* a matrix as main builds one: create_matrix, then data[i][j] = vals[i][j]
FromRows(vals) ==
  LET m == create_matrix(Len(vals), Len(vals[1]))
  IN  Assign(m,
             [c \in Cells(Len(vals), Len(vals[1])) |->
                V(vals[c[1] + 1][c[2] + 1], 0)])

MatA == FromRows(<<<<1, 2, 3>>, <<4, 5, 6>>, <<7, 8, 9>>>>)
MatB == FromRows(<<<<9, 8, 7>>, <<6, 5, 4>>, <<3, 2, 1>>>>)
Small == FromRows(<<<<3, 8>>, <<4, 6>>>>)
Rect23 == FromRows(<<<<1, 2, 3>>, <<4, 5, 6>>>>)

\* the n x n matrix 1, 2, ..., n*n in row-major order; Ramp(3) is main's A
Ramp(n) ==
  LET m == create_matrix(n, n)
  IN  Assign(m, [c \in Cells(n, n) |-> V(c[1] * n + c[2] + 1, 0)])

Shapes(maxCells) ==
  {s \in (1 .. maxCells) \X (1 .. maxCells) : s[1] * s[2] <= maxCells}

MatsOf(shapes, vals) ==
  UNION {{[rows |-> s[1], cols |-> s[2], data |-> d] :
            d \in [Cells(s[1], s[2]) -> vals]} : s \in shapes}

\* 0, 1, 1 + 2^-30 (within 1e-9 of 1) and 1 + 2 * 2^-30 (not within 1e-9 of 1)
Vals == {Zero, One, V(1, 1), V(1, 2)}
\* entries of the first and of the second operand of a pair
PairValsA == {Zero, One, V(2, 0)}
PairValsB == {One, V(2, 0)}
\* what uninitialized memory may hold (one value for all the cells a call reads)
JunkVals == {V(7, 0), V(-3, 0)}
Scalars == {Zero, V(2, 0), V(-1, 0)}

Inputs1 ==
  MatsOf(Shapes(MaxCells), Vals) \cup MatsOf({<<3, 3>>}, {Zero, One})
    \cup {MatA, MatB, Small, Rect23} \cup {identity(n) : n \in 1 .. MAX}
    \cup {Ramp(n) : n \in 1 .. MAX}

PairMatsA == MatsOf(Shapes(MaxPairCells), PairValsA)
PairMatsB == MatsOf(Shapes(MaxPairCells), PairValsB)
SquareMats ==
  {m \in PairMatsA \cup {MatA, MatB, Small} : m.rows = m.cols}
    \cup {Ramp(n) : n \in 1 .. MAX}
Pairs ==
  (PairMatsA \X PairMatsB)
    \cup {<<m, identity(m.rows)>> : m \in SquareMats}
    \cup {<<identity(m.rows), m>> : m \in SquareMats}
    \cup {<<MatA, MatB>>, <<Rect23, Rect23>>, <<Rect23, MatA>>, <<MatA, Rect23>>}

----------------------------------------------------------------------------
(* Operations on one matrix *)

Done(name, ar, r, rd, o) ==
  /\ op' = name
  /\ hist' = Append(hist, name)
  /\ arg' = ar
  /\ res' = r
  /\ reads' = rd
  /\ out' = o
  /\ UNCHANGED <<a, b, store, call>>

Ready == op = "init" /\ Len(hist) < MaxOps

Transpose ==
  /\ Ready
  /\ \E g \in JunkVals :
       Done("transpose", NoArg, ResMatrix(transpose(a, g)), RegionReads(a), NoOut)

ScalarMultiply ==
  /\ Ready
  /\ \E g \in JunkVals, k \in Scalars :
       Done("scalar_multiply", [NoArg EXCEPT !.k = k],
            ResMatrix(scalar_multiply(a, k, g)), RegionReads(a), NoOut)

Determinant2x2 ==
  /\ Ready
  /\ \E g \in JunkVals :
       Done("determinant_2x2", NoArg, ResDouble(determinant_2x2(a, g)),
            DeterminantReads, NoOut)

Trace ==
  /\ Ready
  /\ \E g \in JunkVals :
       Done("trace", NoArg, ResDouble(trace(a, g)), TraceReads(a), NoOut)

IsSymmetric ==
  /\ Ready
  /\ \E g \in JunkVals :
       Done("is_symmetric", NoArg, ResInt(is_symmetric(a, g)),
            SymmetricReads(a, g), NoOut)

PrintMatrix ==
  /\ Ready
  /\ \E g \in JunkVals :
       Done("print_matrix", NoArg, ResVoid, RegionReads(a), print_matrix("m", a, g))

\* the result of the last operation becomes the operand of the next one;
\* b keeps the operand it was computed from
Feed ==
  /\ op # "init"
  /\ res.kind = "matrix"
  /\ Len(hist) < MaxOps
  /\ a' = res.m
  /\ b' = a
  /\ op' = "init"
  /\ UNCHANGED <<hist, arg, res, reads, out, store, call>>

NoStore == [count |-> 0, items |-> <<>>, name |-> <<>>]
NoCall == [fn |-> "none", key |-> <<>>, value |-> <<>>, ret |-> 0, before |-> NoStore]

Init1 ==
  /\ a \in Inputs1
  /\ b = NoMatrix
  /\ op = "init"
  /\ hist = <<>>
  /\ arg = NoArg
  /\ res = NoRes
  /\ reads = {}
  /\ out = NoOut
  /\ store = NoStore
  /\ call = NoCall

Next1 ==
  \/ Transpose
  \/ ScalarMultiply
  \/ Determinant2x2
  \/ Trace
  \/ IsSymmetric
  \/ PrintMatrix
  \/ Feed

SpecUnary == Init1 /\ [][Next1]_vars

----------------------------------------------------------------------------
(* Operations on two matrices *)

Add ==
  /\ Ready
  /\ \E g \in JunkVals :
       Done("add", NoArg, ResMatrix(add(a, b, g)), ElementwiseReads(a), NoOut)

Subtract ==
  /\ Ready
  /\ \E g \in JunkVals :
       Done("subtract", NoArg, ResMatrix(subtract(a, b, g)),
            ElementwiseReads(a), NoOut)

Multiply ==
  /\ Ready
  /\ \E g \in JunkVals :
       Done("multiply", NoArg, ResMatrix(multiply(a, b, g)),
            MultiplyReads(a, b), NoOut)

Init2 ==
  /\ \E p \in Pairs : a = p[1] /\ b = p[2]
  /\ op = "init"
  /\ hist = <<>>
  /\ arg = NoArg
  /\ res = NoRes
  /\ reads = {}
  /\ out = NoOut
  /\ store = NoStore
  /\ call = NoCall

Next2 ==
  \/ Add
  \/ Subtract
  \/ Multiply

SpecPair == Init2 /\ [][Next2]_vars

----------------------------------------------------------------------------
(* The factories, called with any int arguments *)

ArgRange == -1 .. MAX + 1

\* a store to data[i][j] with i or j outside 0 .. MAX-1 is undefined
\* behaviour: the call returns the struct it was filling (the stray stores
\* landing wherever the build puts them), or the process dies
Returned(m) ==
  IF DOMAIN m.data \subseteq Backing
  THEN {ResMatrix(m)}
  ELSE {ResMatrix([m EXCEPT
                     !.data = [c \in (DOMAIN m.data) \cap Backing |-> m.data[c]]]),
        ResCrash}

Create ==
  /\ Ready
  /\ \E rows \in ArgRange, cols \in ArgRange :
       \E r \in Returned(create_matrix(rows, cols)) :
         Done("create_matrix", [NoArg EXCEPT !.rows = rows, !.cols = cols], r, {}, NoOut)

Identity ==
  /\ Ready
  /\ \E n \in ArgRange :
       \E r \in Returned(identity(n)) :
         Done("identity", [NoArg EXCEPT !.n = n], r, {}, NoOut)

Init3 ==
  /\ a = NoMatrix
  /\ b = NoMatrix
  /\ op = "init"
  /\ hist = <<>>
  /\ arg = NoArg
  /\ res = NoRes
  /\ reads = {}
  /\ out = NoOut
  /\ store = NoStore
  /\ call = NoCall

Next3 ==
  \/ Create
  \/ Identity

SpecCreate == Init3 /\ [][Next3]_vars

----------------------------------------------------------------------------
(* The key/value DataStore of the stack-array program *)

(* A C string is a sequence of characters.  A char[MAX_LEN] buffer is      *)
(* [text, nuls, last]: its first Len(text) bytes hold text, the next nuls  *)
(* bytes are NUL, and last tells what the final byte, at MAX_LEN - 1,      *)
(* holds: "nul", or "indet" while nothing has stored to it.                *)

UninitBuf == [text |-> <<>>, nuls |-> 0, last |-> "indet"]

\* strncpy(dest, src, n) with n = MAX_LEN - 1: the first n characters of src,
\* NUL-padded to n bytes; the byte at n is left as it was
strncpy(dest, src, n) ==
  LET copied == IF Len(src) < n THEN Len(src) ELSE n
  IN  [text |-> SubSeq(src, 1, copied), nuls |-> n - copied, last |-> dest.last]

\* `DataStore store;` of main: nothing initialized, count holding anything
UninitStore(c) == [count |-> c, items |-> [i \in {} |-> 0], name |-> UninitBuf]

init_store(st, name) ==
  [st EXCEPT !.count = 0,
             !.name = [strncpy(st.name, name, MAX_LEN - 1) EXCEPT !.last = "nul"]]

ItemAt(st, i) ==
  IF i \in DOMAIN st.items THEN st.items[i] ELSE [key |-> UninitBuf, value |-> UninitBuf]

\* the full-store test written > in place of >=
add_item_gt(st, key, value) ==
  IF st.count > MAX_ITEMS
  THEN [store |-> st, ret |-> -1]
  ELSE LET item == [key |-> strncpy(ItemAt(st, st.count).key, key, MAX_LEN - 1),
                    value |-> strncpy(ItemAt(st, st.count).value, value, MAX_LEN - 1)]
       IN  [store |-> [st EXCEPT
                         !.items = [i \in (DOMAIN st.items) \cup {st.count} |->
                                      IF i = st.count THEN item ELSE st.items[i]],
                         !.count = st.count + 1],
            ret |-> 0]

add_item(st, key, value) ==
  IF st.count >= MAX_ITEMS
  THEN [store |-> st, ret |-> -1]
  ELSE LET item == [key |-> strncpy(ItemAt(st, st.count).key, key, MAX_LEN - 1),
                    value |-> strncpy(ItemAt(st, st.count).value, value, MAX_LEN - 1)]
       IN  [store |-> [st EXCEPT
                         !.items = [i \in (DOMAIN st.items) \cup {st.count} |->
                                      IF i = st.count THEN item ELSE st.items[i]],
                         !.count = st.count + 1],
            ret |-> 0]

\* "Stack Array", "date" and "C" of main; a key of MAX_LEN characters and a
\* value of MAX_LEN - 1
StackArray == <<"S", "t", "a", "c", "k", " ", "A", "r", "r", "a", "y">>
ShortPair == <<<<"d", "a", "t", "e">>, <<"C">>>>
LongPair == <<[i \in 1 .. MAX_LEN |-> "x"], [i \in 1 .. MAX_LEN - 1 |-> "y"]>>

AddItem ==
  \E kv \in (IF store.count < MaxVaried THEN {ShortPair, LongPair} ELSE {ShortPair}) :
    LET r == add_item(store, kv[1], kv[2])
    IN  /\ store' = r.store
        /\ call' = [fn |-> "add_item", key |-> kv[1], value |-> kv[2],
                    ret |-> r.ret, before |-> store]
        /\ UNCHANGED mvars

Init4 ==
  /\ a = NoMatrix
  /\ b = NoMatrix
  /\ op = "init"
  /\ hist = <<>>
  /\ arg = NoArg
  /\ res = NoRes
  /\ reads = {}
  /\ out = NoOut
  /\ \E c \in {-7, 0, MAX_ITEMS + 1} : store = init_store(UninitStore(c), StackArray)
  /\ call = [NoCall EXCEPT !.fn = "init_store"]

Next4 == AddItem

SpecStore == Init4 /\ [][Next4]_vars

----------------------------------------------------------------------------
(* Properties of the matrix core *)

Abs(n) == IF n < 0 THEN 0 - n ELSE n

InRegion(m, i, j) == i \in 0 .. m.rows - 1 /\ j \in 0 .. m.cols - 1

\* same shape and the same value in every logical entry
SameLogical(x, y) ==
  /\ x.rows = y.rows
  /\ x.cols = y.cols
  /\ \A c \in Cells(x.rows, x.cols) :
       c \in DOMAIN x.data /\ c \in DOMAIN y.data /\ x.data[c] = y.data[c]

\* the matrix with the given rows, written down directly
Lit(vals) ==
  [rows |-> Len(vals), cols |-> Len(vals[1]),
   data |-> [c \in Cells(Len(vals), Len(vals[1])) |-> V(vals[c[1] + 1][c[2] + 1], 0)]]

\* n x n, 1 on the main diagonal and 0 elsewhere
IsIdentityMatrix(m, n) ==
  /\ m.rows = n
  /\ m.cols = n
  /\ DOMAIN m.data = Cells(n, n)
  /\ \A c \in Cells(n, n) : m.data[c] = IF c[1] = c[2] THEN One ELSE Zero

\* the sum of x[i,k] * y[k,j] over the set ks of indices k
RECURSIVE DotSum(_, _, _, _, _)
DotSum(x, y, i, j, ks) ==
  IF ks = {} THEN Zero
  ELSE LET k == CHOOSE n \in ks : \A o \in ks : n >= o
       IN  DAdd(DMul(x.data[<<i, k>>], y.data[<<k, j>>]), DotSum(x, y, i, j, ks \ {k}))

\* the sum of m[i,i] over the set is of indices i
RECURSIVE DiagSum(_, _)
DiagSum(m, is) ==
  IF is = {} THEN Zero
  ELSE LET i == CHOOSE n \in is : \A o \in is : n >= o
       IN  DAdd(m.data[<<i, i>>], DiagSum(m, is \ {i}))

\* |x - y| <= 1e-9 for x - y = dw + df / 2^30: dw = 0 and |df| / 2^30 <= 1 / 10^9,
\* that is |df| * 5^9 <= 2^21
WithinTol(x, y) == x.w = y.w /\ Abs(x.f - y.f) * 5^9 <= 2^21

\* C1: multiply(a, b) with a.cols = b.rows has shape a.rows x b.cols and entry
\* (i, j) = sum over k in [0, a.cols) of a[i,k] * b[k,j]; A x B of the
\* demonstration is [[30,24,18],[84,69,54],[138,114,90]]
C1_MultiplyIsProduct ==
  (op = "multiply" /\ a.cols = b.rows) =>
    /\ res.status = "ok"
    /\ res.m.rows = a.rows
    /\ res.m.cols = b.cols
    /\ \A c \in Cells(a.rows, b.cols) :
         /\ c \in DOMAIN res.m.data
         /\ res.m.data[c] = DotSum(a, b, c[1], c[2], 0 .. a.cols - 1)
    /\ (a = Lit(<<<<1, 2, 3>>, <<4, 5, 6>>, <<7, 8, 9>>>>)
          /\ b = Lit(<<<<9, 8, 7>>, <<6, 5, 4>>, <<3, 2, 1>>>>)
        => SameLogical(res.m, Lit(<<<<30, 24, 18>>, <<84, 69, 54>>, <<138, 114, 90>>>>)))

C1_Witness ==
  /\ op = "multiply"
  /\ a = MatA
  /\ b = MatB
  /\ res.m.data[<<0, 0>>] = V(30, 0)
  /\ res.m.data[<<2, 2>>] = V(90, 0)

\* C2: for a square n x n matrix m, multiply(m, identity(n)) = m and
\* multiply(identity(n), m) = m in shape and in every logical entry, identity(n)
\* having 1 on the main diagonal and 0 elsewhere
C2_MultiplyByIdentity ==
  /\ (op = "multiply" /\ a.rows = a.cols /\ b = identity(a.rows)) =>
       IsIdentityMatrix(b, a.rows) /\ SameLogical(res.m, a)
  /\ (op = "multiply" /\ b.rows = b.cols /\ a = identity(b.rows)) =>
       IsIdentityMatrix(a, b.rows) /\ SameLogical(res.m, b)

C2_Witness ==
  /\ op = "multiply"
  /\ a = identity(3)
  /\ b = MatA
  /\ SameLogical(res.m, MatA)

\* C3: transpose(m) of an r x c matrix has shape c x r with result[j,i] = m[i,j],
\* and transpose(transpose(m)) equals m in shape and in every logical entry
C3_TransposeInvolution ==
  /\ op = "transpose" =>
       /\ res.m.rows = a.cols
       /\ res.m.cols = a.rows
       /\ \A c \in Cells(a.rows, a.cols) :
            <<c[2], c[1]>> \in DOMAIN res.m.data /\ res.m.data[<<c[2], c[1]>>] = a.data[c]
  /\ (op = "transpose" /\ Len(hist) >= 2 /\ hist[Len(hist) - 1] = "transpose") =>
       SameLogical(res.m, b)

C3_Witness ==
  /\ op = "transpose"
  /\ hist = <<"transpose", "transpose">>
  /\ b.rows = 1 /\ b.cols = 3
  /\ b.data[<<0, 0>>] # b.data[<<0, 2>>]
  /\ SameLogical(res.m, b)

\* C8: is_symmetric(m) is false when m.rows # m.cols; for square m it is true
\* iff |m[i,j] - m[j,i]| <= 1e-9 for all i, j; so it is true for identity(n) and
\* false for A = [[1,2,3],[4,5,6],[7,8,9]]
C8_IsSymmetric ==
  op = "is_symmetric" =>
    /\ res.i = (IF a.rows # a.cols THEN 0
                ELSE IF \A c \in Cells(a.rows, a.cols) :
                          WithinTol(a.data[c], a.data[<<c[2], c[1]>>])
                     THEN 1 ELSE 0)
    /\ (IsIdentityMatrix(a, a.rows) => res.i = 1)
    /\ (a = Lit(<<<<1, 2, 3>>, <<4, 5, 6>>, <<7, 8, 9>>>>) => res.i = 0)

\* a square matrix whose off-diagonal pair differs, by no more than 1e-9
C8_Witness ==
  /\ op = "is_symmetric"
  /\ a.rows = 2 /\ a.cols = 2
  /\ a.data[<<0, 1>>] # a.data[<<1, 0>>]
  /\ res.i = 1

\* C9: trace(m) of an r x c matrix, square or not, is the sum of m[i,i] for i in
\* [0, min(r, c)); trace(identity(n)) = n and trace(A) = 15
C9_Trace ==
  op = "trace" =>
    /\ res.v = DiagSum(a, 0 .. (IF a.rows < a.cols THEN a.rows ELSE a.cols) - 1)
    /\ (IsIdentityMatrix(a, a.rows) => res.v = V(a.rows, 0))
    /\ (a = Lit(<<<<1, 2, 3>>, <<4, 5, 6>>, <<7, 8, 9>>>>) => res.v = V(15, 0))

C9_Witness ==
  /\ op = "trace"
  /\ a.rows = 3 /\ a.cols = 1
  /\ res.v = V(1, 2)

\* C4: create(rows, cols) fails with BoundsExceeded whenever rows or cols is
\* non-positive or exceeds MAX, so every matrix create returns has
\* 0 < rows <= MAX and 0 < cols <= MAX
C4_CreateRejectsBadBounds ==
  op = "create_matrix" =>
    /\ (arg.rows < 1 \/ arg.rows > MAX \/ arg.cols < 1 \/ arg.cols > MAX)
         => res.status = "BoundsExceeded"
    /\ res.kind = "matrix" =>
         (0 < res.m.rows /\ res.m.rows <= MAX /\ 0 < res.m.cols /\ res.m.cols <= MAX)

\* C5: multiply(a, b) fails with ShapeMismatch whenever a.cols # b.rows
C5_MultiplyRejectsMismatch ==
  (op = "multiply" /\ a.cols # b.rows) => res.status = "ShapeMismatch"

\* C6: add(a, b) and subtract(a, b) fail with ShapeMismatch whenever the shapes
\* differ; when they are equal the result has that shape and each entry is
\* a[i,j] + b[i,j] (respectively a[i,j] - b[i,j])
C6_AddSubtractContract ==
  op \in {"add", "subtract"} =>
    IF a.rows # b.rows \/ a.cols # b.cols
    THEN res.status = "ShapeMismatch"
    ELSE /\ res.m.rows = a.rows
         /\ res.m.cols = a.cols
         /\ \A c \in Cells(a.rows, a.cols) :
              res.m.data[c] = IF op = "add" THEN DAdd(a.data[c], b.data[c])
                              ELSE DSub(a.data[c], b.data[c])

\* the part of C6 about operands of equal shape
AddSubtractElementwise ==
  (op \in {"add", "subtract"} /\ a.rows = b.rows /\ a.cols = b.cols) =>
    /\ res.m.rows = a.rows
    /\ res.m.cols = a.cols
    /\ \A c \in Cells(a.rows, a.cols) :
         res.m.data[c] = IF op = "add" THEN DAdd(a.data[c], b.data[c])
                         ELSE DSub(a.data[c], b.data[c])

\* C7: no operation on operands of valid shape reads an entry of an operand
\* outside that operand's own [0,rows) x [0,cols) region
C7_NoReadOutsideRegion ==
  \A r \in reads : InRegion(IF r[1] = "a" THEN a ELSE b, r[2], r[3])

----------------------------------------------------------------------------
(* Properties of the DataStore *)

\* the buffer reads back as the C string s
Holds(buf, s) == buf.text = s /\ (buf.nuls > 0 \/ buf.last = "nul")

\* the first n characters of s
Prefix(s, n) == [i \in 1 .. (IF Len(s) < n THEN Len(s) ELSE n) |-> s[i]]

\* the first MAX_LEN - 1 bytes of the buffer are the first MAX_LEN - 1
\* characters of s, NUL-padded
HoldsTruncated(buf, s) ==
  /\ buf.text = Prefix(s, MAX_LEN - 1)
  /\ buf.nuls = MAX_LEN - 1 - Len(buf.text)

CountAndEarlierItems ==
  /\ 0 <= store.count /\ store.count <= MAX_ITEMS
  /\ call.fn = "add_item" =>
       IF call.before.count < MAX_ITEMS
       THEN /\ call.ret = 0
            /\ store.count = call.before.count + 1
            /\ call.before.count \in DOMAIN store.items
            /\ \A i \in 0 .. call.before.count - 1 : store.items[i] = call.before.items[i]
       ELSE /\ call.ret = -1
            /\ store = call.before

\* C10 (as stated): 0 <= count <= MAX_ITEMS always; add_item on a store with
\* count < MAX_ITEMS returns 0, writes the new pair at index count, increments
\* count by 1 and leaves the earlier items unchanged; on a full store it
\* returns -1 and changes nothing
C10_AddItemWritesPair ==
  /\ CountAndEarlierItems
  /\ (call.fn = "add_item" /\ call.before.count < MAX_ITEMS) =>
       /\ Holds(store.items[call.before.count].key, call.key)
       /\ Holds(store.items[call.before.count].value, call.value)

\* C10 (amended): as stated, the pair written at index count being the first
\* MAX_LEN - 1 characters of the key and of the value, NUL-padded
C10_AddItemWritesTruncatedPair ==
  /\ CountAndEarlierItems
  /\ (call.fn = "add_item" /\ call.before.count < MAX_ITEMS) =>
       /\ HoldsTruncated(store.items[call.before.count].key, call.key)
       /\ HoldsTruncated(store.items[call.before.count].value, call.value)

\* a full store, holding a truncated key, has refused a pair
C10_Witness ==
  /\ call.fn = "add_item"
  /\ call.ret = -1
  /\ store.count = MAX_ITEMS
  /\ Len(store.items[0].key.text) = MAX_LEN - 1
  /\ Len(store.items[1].key.text) = 4

====
